---- MODULE Spec2Model ----
(***************************************************************************)
(* A model of xblock-runtime-lib: the secure handler tokens and URLs       *)
(* (utils.py, api.py), the ids of anonymous users (utils.py), the          *)
(* per-thread runtime system and the OLX parse cache (api.py,              *)
(* blockstore_runtime.py) and the loading and rendering of blocks          *)
(* (api.py, runtime.py).                                                   *)
(*                                                                         *)
(* Strings are sequences of one-character strings, so that concatenation,  *)
(* prefixes and separators are what they are in the code.                  *)
(***************************************************************************)
EXTENDS Integers, Sequences, FiniteSets, TLC

VARIABLES
    now,          \* time.time(), as [q, r]: q * TOKEN_PERIOD + r seconds
    ticks,        \* how often the clock has advanced
    tokens,       \* the last calls of get_secure_hash_for_xblock_handler
    thread_status,  \* per thread: "new", "alive" or "exited"
    thread_ident,   \* per thread: threading.get_ident(), 0 before it starts
    pc,             \* per thread: where it is in get_runtime_system / get_block
    system_attr,    \* per cache name: the attribute set on get_runtime_system, 0 if unset
    n_systems,      \* how many XBlockRuntimeSystem objects were constructed
    created_by,     \* per XBlockRuntimeSystem: the thread that constructed it, 0 if none
    loaded,         \* per XBlockRuntimeSystem and usage: the cached definition
    th_system,      \* per thread: the system its current call works with
    th_usage,       \* per thread: the usage key of its current get_block
    th_pending,     \* per thread: the includes set on the block being parsed
    th_node,        \* per thread: the next child node parse_xml hands over
    th_result,      \* per thread: what its last get_block returned or raised
    returned,       \* per thread: the systems get_runtime_system returned to it
    n_calls,        \* how many get_block calls the threads have begun
    sessions,       \* per session key: session["xblock_id_for_anonymous_user"], or None
    first_id,       \* per session key: the first id ever stored in the session, or None
    request,        \* crum.get_current_request()
    anon_call,      \* the last call of get_xblock_id_for_anonymous_user
    urls,           \* the last two calls of get_handler_url
    loaded_block,   \* the block the last successful load_block returned
    view_call,      \* the last call of load_block, render or render_block_view
    rewrite_call,   \* the last call of rewrite_blockstore_runtime_handler_urls
    field_data_call, \* the last call of _init_field_data_for_block
    static_call,    \* the last call of process_static_urls
    include_call    \* the last call of parse_xblock_include on a node of its own

(***************************************************************************)
(* Bounds of the model.                                                    *)
(***************************************************************************)
MaxTicks == 3
MaxHistory == 2
StartPeriod == 10350

(***************************************************************************)
(* Strings.                                                                *)
(***************************************************************************)
DigitChars == <<"0", "1", "2", "3", "4", "5", "6", "7", "8", "9">>

RECURSIVE NatToStr(_)
NatToStr(n) ==
    IF n < 10 THEN <<DigitChars[n + 1]>>
    ELSE NatToStr(n \div 10) \o <<DigitChars[(n % 10) + 1]>>

\* Python's str() of an int.
IntToStr(n) == IF n < 0 THEN <<"-">> \o NatToStr(-n) ELSE NatToStr(n)

\* A history that keeps its last MaxHistory entries.
Push(h, e) ==
    IF Len(h) < MaxHistory THEN Append(h, e) ELSE Append(Tail(h), e)

(***************************************************************************)
(* Time.  TLC's integers are 32 bits wide and the claims reach times       *)
(* beyond 2^31 seconds, so a time t is kept as the pair q, r with          *)
(* t = q * TOKEN_PERIOD + r, and the product is never formed.              *)
(***************************************************************************)
TOKEN_PERIOD == 172800

\* math.floor(t / TOKEN_PERIOD)
FloorDivPeriod(t) == t.q + (t.r \div TOKEN_PERIOD)

AddSeconds(t, d) ==
    [q |-> t.q + ((t.r + d) \div TOKEN_PERIOD), r |-> (t.r + d) % TOKEN_PERIOD]

AddPeriods(t, n) == [q |-> t.q + n, r |-> t.r]

\* t <= u < t + TOKEN_PERIOD
WithinOnePeriod(t, u) ==
    \/ u.q = t.q /\ u.r >= t.r
    \/ u.q = t.q + 1 /\ u.r < t.r

\* u >= t + 2 * TOKEN_PERIOD
AtLeastTwoPeriods(t, u) ==
    \/ u.q > t.q + 2
    \/ u.q = t.q + 2 /\ u.r >= t.r

(***************************************************************************)
(* utils.get_secure_hash_for_xblock_handler                                *)
(***************************************************************************)
\* hmac.new(SECRET_KEY, check_string, 'blake2b').hexdigest()[:20], taken to
\* be injective on check_string.
hmac_hexdigest(check_string) == [key |-> "SECRET_KEY", msg |-> check_string]

check_string_without_user(time_token, username, block_key_str) ==
    IntToStr(time_token) \o <<":">> \o block_key_str

check_string_of(time_token, username, block_key_str) ==
    IntToStr(time_token) \o <<":">> \o username \o <<":">> \o block_key_str

get_secure_hash_for_xblock_handler(username, block_key_str, time_idx, t) ==
    LET time_token == FloorDivPeriod(t) + TOKEN_PERIOD * time_idx
    IN  hmac_hexdigest(check_string_of(time_token, username, block_key_str))

(***************************************************************************)
(* Inputs: user names and usage keys.                                      *)
(***************************************************************************)
Usernames == { <<"a", "l">>, <<"b", "o", "-", "1">> }

UsageKeys == { <<"l", "b", ":", "o", ":", "x">>, <<"l", "b", ":", "o", ":", "y">> }

\* One more block, without children, that only render_block_view is asked for.
LeafKey == <<"l", "b", ":", "o", ":", "w">>

Blocks == UsageKeys \cup {LeafKey}

(***************************************************************************)
(* Users, requests and sessions.                                           *)
(***************************************************************************)
\* Python's None, kept apart from every string of characters.
None == <<"None">>

HEX_LEN == 20

\* uuid4().hex[:20]: random hexadecimal digits, but for the version digit 4
\* and the variant digit (8, 9, a or b); c stands for the random ones.
UuidHex(c) ==
    [i \in 1..HEX_LEN |-> IF i = 13 THEN "4" ELSE IF i = 17 THEN "8" ELSE c]

UuidHexes == { UuidHex("0"), UuidHex("f") }

AnonPrefix == <<"a", "n", "o", "n">>

\* A Django user object, or None.  An AnonymousUser may carry the attribute
\* xblock_id_for_anonymous_user (stored), which code outside this library
\* sets; stored = None stands for no such attribute.
NoneUser == [kind |-> "none", id |-> 0, username |-> None, stored |-> None]

RegisteredUsers ==
    { [kind |-> "user", id |-> 8, username |-> <<"a", "l">>, stored |-> None],
      [kind |-> "user", id |-> 9, username |-> AnonPrefix \o UuidHex("0"),
       stored |-> None] }

AnonymousUsers ==
    { [kind |-> "anonymous", id |-> 0, username |-> <<>>, stored |-> None],
      [kind |-> "anonymous", id |-> 0, username |-> <<>>,
       stored |-> AnonPrefix \o UuidHex("f")] }

UserArgs == {NoneUser} \cup RegisteredUsers \cup AnonymousUsers

is_anonymous(user) == user.kind = "anonymous"
is_authenticated(user) == user.kind = "user"

SessionKeys == {1}

\* What crum.get_current_request() returns: None outside of a request, else
\* the request, which has a session (SessionMiddleware ran; a session object
\* is true even when it is empty) or has no attribute session at all.
NoRequest == [kind |-> "none", session |-> 0]
Requests ==
    { [kind |-> "session", session |-> k] : k \in SessionKeys }
        \cup { [kind |-> "nosession", session |-> 0] }

Raise(exc) == [exc |-> exc, value |-> None]
Return(value) == [exc |-> "none", value |-> value]

(***************************************************************************)
(* utils.get_xblock_id_for_anonymous_user: what it returns or raises, and  *)
(* the sessions afterwards.  uuid_hex is the uuid4 it would draw.          *)
(***************************************************************************)
get_xblock_id_for_anonymous_user(user, current_request, sess, uuid_hex) ==
    IF user.kind = "none" \/ ~is_anonymous(user)
    THEN [result |-> Raise("TypeError"), sessions |-> sess]
    ELSE IF user.stored # None
    THEN [result |-> Return(user.stored), sessions |-> sess]
    ELSE IF current_request.kind = "none"
    THEN [result |-> Raise("RuntimeError"), sessions |-> sess]
    ELSE IF current_request.kind = "nosession"
    THEN \* current_request.session: the request has no such attribute
         [result |-> Raise("AttributeError"), sessions |-> sess]
    ELSE LET k == current_request.session
             after == IF sess[k] = None
                      THEN [sess EXCEPT ![k] = AnonPrefix \o uuid_hex]
                      ELSE sess
         IN  [result |-> Return(after[k]), sessions |-> after]

(***************************************************************************)
(* api.get_handler_url: what it returns or raises, and the sessions        *)
(* afterwards.  The URL is kept as its parts: the site root, the keyword   *)
(* arguments handed to reverse() and the query string.                     *)
(***************************************************************************)
\* urllib.parse.urlencode of a list of pairs of plain words.
RECURSIVE urlencode(_)
urlencode(extra_params) ==
    IF extra_params = <<>> THEN <<>>
    ELSE LET kv == Head(extra_params)[1] \o <<"=">> \o Head(extra_params)[2]
         IN  IF Len(extra_params) = 1 THEN kv
             ELSE kv \o <<"&">> \o urlencode(Tail(extra_params))

NoUrl ==
    [site_root_url |-> None, pk |-> None, username |-> None,
     secure_key |-> hmac_hexdigest(None), handler_name |-> None, qstring |-> None]

get_handler_url_keyed_by_handler(usage_key, handler_name, user, extra_params, current_request, sess, uuid_hex, t) ==
    LET anon == get_xblock_id_for_anonymous_user(user, current_request, sess, uuid_hex)
        user_id == IF is_authenticated(user) THEN user.username ELSE anon.result.value
        secure_token == get_secure_hash_for_xblock_handler(
                            user_id, usage_key \o <<"/">> \o handler_name, 0, t)
    IN  IF user.kind = "none"
        THEN [exc |-> "TypeError", user_id |-> None, url |-> NoUrl, sessions |-> sess]
        ELSE IF ~is_authenticated(user) /\ anon.result.exc # "none"
        THEN [exc |-> anon.result.exc, user_id |-> None, url |-> NoUrl,
              sessions |-> anon.sessions]
        ELSE [exc |-> "none", user_id |-> user_id,
              url |-> [site_root_url |-> "LABXCHANGE_FRONTEND_URL",
                       pk |-> usage_key, username |-> user_id,
                       secure_key |-> secure_token, handler_name |-> handler_name,
                       qstring |-> IF extra_params = <<>> THEN <<>>
                                   ELSE <<"?">> \o urlencode(extra_params)],
              sessions |-> IF is_authenticated(user) THEN sess ELSE anon.sessions]

get_handler_url(usage_key, handler_name, user, extra_params, current_request, sess, uuid_hex, t) ==
    LET usage_key_str == usage_key
        anon == get_xblock_id_for_anonymous_user(user, current_request, sess, uuid_hex)
    IN  IF user.kind = "none"
        THEN [exc |-> "TypeError", user_id |-> None, url |-> NoUrl, sessions |-> sess]
        ELSE IF ~is_authenticated(user) /\ ~is_anonymous(user)
        THEN [exc |-> "ValueError", user_id |-> None, url |-> NoUrl, sessions |-> sess]
        ELSE IF ~is_authenticated(user) /\ anon.result.exc # "none"
        THEN [exc |-> anon.result.exc, user_id |-> None, url |-> NoUrl,
              sessions |-> anon.sessions]
        ELSE LET user_id == IF is_authenticated(user) THEN user.username
                            ELSE anon.result.value
                 secure_token ==
                     get_secure_hash_for_xblock_handler(user_id, usage_key_str, 0, t)
                 qstring == IF extra_params = <<>> THEN <<>>
                            ELSE <<"?">> \o urlencode(extra_params)
             IN  [exc |-> "none", user_id |-> user_id,
                  url |-> [site_root_url |-> "LABXCHANGE_FRONTEND_URL",
                           pk |-> usage_key_str, username |-> user_id,
                           secure_key |-> secure_token,
                           handler_name |-> handler_name, qstring |-> qstring],
                  sessions |-> IF is_authenticated(user) THEN sess ELSE anon.sessions]

(***************************************************************************)
(* XBlockRuntime.__init__: the runtime's user_id, or what it raises.       *)
(* A user_id is [int, str]: user.id is an integer, an anonymous id a string.*)
(***************************************************************************)
IntId(n) == [int |-> n, str |-> None]
StrId(s) == [int |-> 0, str |-> s]
NoId == [int |-> 0, str |-> None]

XBlockRuntime_init(user, current_request, sess, uuid_hex) ==
    LET anon == get_xblock_id_for_anonymous_user(user, current_request, sess, uuid_hex)
    IN  IF user.kind = "none"
        THEN [exc |-> "none", user_id |-> NoId, sessions |-> sess]
        ELSE IF is_anonymous(user)
        THEN [exc |-> anon.result.exc,
              user_id |-> IF anon.result.exc = "none" THEN StrId(anon.result.value)
                          ELSE NoId,
              sessions |-> anon.sessions]
        ELSE [exc |-> "none", user_id |-> IntId(user.id), sessions |-> sess]

(***************************************************************************)
(* OLX: the child nodes of each block's XML, in document order.            *)
(***************************************************************************)
IncludeNode(definition) ==
    [tag |-> "xblock-include", attrib |-> [definition |-> definition]]

Olx(usage_id) ==
    IF usage_id = <<"l", "b", ":", "o", ":", "x">>
    THEN << IncludeNode(<<"h", "/", "a">>),
            [tag |-> "xblock-include",
             attrib |-> [definition |-> <<"h", "/", "b">>, source |-> <<"l">>]] >>
    ELSE IF usage_id = LeafKey THEN <<>>
    ELSE << IncludeNode(<<"v", "/", "c">>), IncludeNode(<<"v", "c">>) >>

(***************************************************************************)
(* olx_parsing.parse_xblock_include                                        *)
(***************************************************************************)
\* str.split(sep): the parts of s between the occurrences of sep.
RECURSIVE Split(_, _)
Split(s, sep) ==
    IF \A i \in DOMAIN s : s[i] # sep THEN <<s>>
    ELSE LET k == CHOOSE i \in DOMAIN s :
                      s[i] = sep /\ \A j \in 1..(i - 1) : s[j] # sep
         IN  <<SubSeq(s, 1, k - 1)>> \o Split(SubSeq(s, k + 1, Len(s)), sep)

\* attrib.get(name, None)
AttribGet(attrib, name) == IF name \in DOMAIN attrib THEN attrib[name] ELSE None

\* parse_xblock_include as it would be if it took the first two parts of a
\* definition with more than one "/".
parse_xblock_include_first_two_parts(include_node) ==
    IF include_node.tag # "xblock-include" THEN Raise("BundleFormatException")
    ELSE IF "definition" \notin DOMAIN include_node.attrib
    THEN Raise("BundleFormatException")
    ELSE LET definition_path == include_node.attrib["definition"]
             parts == Split(definition_path, "/")
         IN  IF Len(parts) < 2 THEN Raise("BundleFormatException")
             ELSE Return([link_id |-> AttribGet(include_node.attrib, "source"),
                          block_type |-> parts[1],
                          definition_id |-> parts[2],
                          usage_hint |-> AttribGet(include_node.attrib, "usage")])

parse_xblock_include(include_node) ==
    IF include_node.tag # "xblock-include" THEN Raise("BundleFormatException")
    ELSE IF "definition" \notin DOMAIN include_node.attrib
    THEN Raise("BundleFormatException")
    ELSE LET definition_path == include_node.attrib["definition"]
             parts == Split(definition_path, "/")
         IN  IF Len(parts) # 2 THEN Raise("BundleFormatException")
             ELSE Return([link_id |-> AttribGet(include_node.attrib, "source"),
                          block_type |-> parts[1],
                          definition_id |-> parts[2],
                          usage_hint |-> AttribGet(include_node.attrib, "usage")])

\* The includes a complete parse of the block's OLX yields.
RECURSIVE IncludesOf(_)
IncludesOf(nodes) ==
    IF nodes = <<>> THEN <<>>
    ELSE <<parse_xblock_include(Head(nodes)).value>> \o IncludesOf(Tail(nodes))

(***************************************************************************)
(* Threads and the objects they share.                                     *)
(***************************************************************************)
NumThreads == 2
NumIdents == 2
MaxCalls == 2

Threads == 1..NumThreads
Idents == 1..NumIdents
SystemIds == 1..NumThreads

NotCached == [cached |-> FALSE, includes |-> <<>>]
Unset == [set |-> FALSE, includes |-> <<>>]

(***************************************************************************)
(* BlockstoreFieldData and BlockstoreChildrenData, as api.get_runtime_     *)
(* system's comment describes them: the definitions parsed so far are      *)
(* cached per system, the fields set on a block while it is parsed are     *)
(* kept per block until cache_fields moves them into the cache.            *)
(***************************************************************************)
has_cached_definition(store, usage_id) == store[usage_id].cached

\* BlockstoreChildrenData.get_includes: the block's own changed field, else
\* the cached definition's, else none.
get_includes(store, pending, usage_id) ==
    IF pending.set THEN pending.includes
    ELSE IF store[usage_id].cached THEN store[usage_id].includes
    ELSE <<>>

\* BlockstoreChildrenData.append_include: the new value of the block's field.
append_include(store, pending, usage_id, parsed_include) ==
    [set |-> TRUE,
     includes |-> Append(get_includes(store, pending, usage_id), parsed_include)]

\* BlockstoreFieldData.cache_fields: the store with the block's fields cached.
cache_fields(store, pending, usage_id) ==
    [store EXCEPT ![usage_id] = [cached |-> TRUE, includes |-> pending.includes]]

(***************************************************************************)
(* api.get_runtime_system, statement by statement.                         *)
(***************************************************************************)
cache_name_shared(ident) == 1

\* f'_system_{threading.get_ident()}'
cache_name(ident) == ident

tokenVars == <<now, ticks, tokens>>

userVars == <<sessions, first_id, request, anon_call, urls>>

viewVars == <<loaded_block, view_call>>

pureVars == <<rewrite_call, field_data_call, static_call, include_call>>

threadVars ==
    <<thread_status, thread_ident, pc, system_attr, n_systems, created_by,
      loaded, th_system, th_usage, th_pending, th_node, th_result, returned,
      n_calls>>

\* The main thread is alive from the start, with ident 1; every other thread
\* starts later.  threading.get_ident() is nonzero and differs from the
\* ident of every other live thread; the ident of a thread that has exited
\* may be given out again.
StartThread(t) ==
    /\ thread_status[t] = "new"
    /\ \E i \in Idents :
          /\ \A o \in Threads : thread_status[o] = "alive" => thread_ident[o] # i
          /\ thread_ident' = [thread_ident EXCEPT ![t] = i]
    /\ thread_status' = [thread_status EXCEPT ![t] = "alive"]
    /\ UNCHANGED <<pc, system_attr, n_systems, created_by, loaded, th_system,
                   th_usage, th_pending, th_node, th_result, returned, n_calls>>
    /\ UNCHANGED <<tokenVars, userVars, viewVars, pureVars>>

ExitThread(t) ==
    /\ thread_status[t] = "alive"
    /\ pc[t] = "idle"
    /\ thread_status' = [thread_status EXCEPT ![t] = "exited"]
    /\ UNCHANGED <<thread_ident, pc, system_attr, n_systems, created_by, loaded,
                   th_system, th_usage, th_pending, th_node, th_result, returned,
                   n_calls>>
    /\ UNCHANGED <<tokenVars, userVars, viewVars, pureVars>>

\* The thread calls get_runtime_system().get_runtime(user).get_block(usage_id).
BeginGetBlock(t) ==
    /\ thread_status[t] = "alive"
    /\ pc[t] = "idle"
    /\ n_calls < MaxCalls
    /\ n_calls' = n_calls + 1
    /\ \E u \in UsageKeys : th_usage' = [th_usage EXCEPT ![t] = u]
    /\ pc' = [pc EXCEPT ![t] = "grs_hasattr"]
    /\ UNCHANGED <<thread_status, thread_ident, system_attr, n_systems, created_by,
                   loaded, th_system, th_pending, th_node, th_result, returned>>
    /\ UNCHANGED <<tokenVars, userVars, viewVars, pureVars>>

\* if not hasattr(get_runtime_system, cache_name):
GrsHasattr(t) ==
    /\ pc[t] = "grs_hasattr"
    /\ pc' = [pc EXCEPT ![t] =
                 IF system_attr[cache_name(thread_ident[t])] = 0
                 THEN "grs_setattr" ELSE "grs_getattr"]
    /\ UNCHANGED <<thread_status, thread_ident, system_attr, n_systems, created_by,
                   loaded, th_system, th_usage, th_pending, th_node, th_result,
                   returned, n_calls>>
    /\ UNCHANGED <<tokenVars, userVars, viewVars, pureVars>>

\* setattr(get_runtime_system, cache_name, XBlockRuntimeSystem(**params))
GrsSetattr(t) ==
    /\ pc[t] = "grs_setattr"
    /\ n_systems' = n_systems + 1
    /\ created_by' = [created_by EXCEPT ![n_systems + 1] = t]
    /\ system_attr' =
           [system_attr EXCEPT ![cache_name(thread_ident[t])] = n_systems + 1]
    /\ pc' = [pc EXCEPT ![t] = "grs_getattr"]
    /\ UNCHANGED <<thread_status, thread_ident, loaded, th_system, th_usage,
                   th_pending, th_node, th_result, returned, n_calls>>
    /\ UNCHANGED <<tokenVars, userVars, viewVars, pureVars>>

\* return getattr(get_runtime_system, cache_name)
GrsGetattr(t) ==
    /\ pc[t] = "grs_getattr"
    /\ LET system == system_attr[cache_name(thread_ident[t])]
       IN  /\ th_system' = [th_system EXCEPT ![t] = system]
           /\ returned' = [returned EXCEPT ![t] = @ \cup {system}]
    /\ pc' = [pc EXCEPT ![t] = "gb_has_cached"]
    /\ UNCHANGED <<thread_status, thread_ident, system_attr, n_systems, created_by,
                   loaded, th_usage, th_pending, th_node, th_result, n_calls>>
    /\ UNCHANGED <<tokenVars, userVars, viewVars, pureVars>>

(***************************************************************************)
(* BlockstoreXBlockRuntime.get_block, statement by statement.              *)
(***************************************************************************)
FinishGetBlock(t, result) ==
    /\ th_result' = [th_result EXCEPT ![t] =
                        [usage_id |-> th_usage[t], exc |-> result.exc,
                         value |-> result.value]]
    /\ th_pending' = [th_pending EXCEPT ![t] = Unset]
    /\ th_node' = [th_node EXCEPT ![t] = 1]
    /\ th_system' = [th_system EXCEPT ![t] = 0]
    /\ th_usage' = [th_usage EXCEPT ![t] = None]
    /\ pc' = [pc EXCEPT ![t] = "idle"]

\* if self.system.authored_data_store.has_cached_definition(usage_id):
GbHasCached(t) ==
    /\ pc[t] = "gb_has_cached"
    /\ pc' = [pc EXCEPT ![t] =
                 IF has_cached_definition(loaded[th_system[t]], th_usage[t])
                 THEN "gb_construct" ELSE "gb_parse"]
    /\ th_node' = [th_node EXCEPT ![t] = 1]
    /\ th_pending' = [th_pending EXCEPT ![t] = Unset]
    /\ UNCHANGED <<thread_status, thread_ident, system_attr, n_systems, created_by,
                   loaded, th_system, th_usage, th_result, returned, n_calls>>
    /\ UNCHANGED <<tokenVars, userVars, viewVars, pureVars>>

\* return self.construct_xblock(block_type, keys, for_parent=for_parent):
\* the block reads its children from the cached definition.
GbConstruct(t) ==
    /\ pc[t] = "gb_construct"
    /\ FinishGetBlock(t,
           Return(get_includes(loaded[th_system[t]], Unset, th_usage[t])))
    /\ UNCHANGED <<thread_status, thread_ident, system_attr, n_systems, created_by,
                   loaded, returned, n_calls>>
    /\ UNCHANGED <<tokenVars, userVars, viewVars, pureVars>>

\* parse_xml hands the next child node to add_node_as_child, which parses
\* it and calls add_child_include; a BundleFormatException ends the call.
GbParseNode(t) ==
    /\ pc[t] = "gb_parse"
    /\ th_node[t] <= Len(Olx(th_usage[t]))
    /\ LET parsed_include == parse_xblock_include(Olx(th_usage[t])[th_node[t]])
       IN  IF parsed_include.exc # "none"
           THEN FinishGetBlock(t, Raise(parsed_include.exc))
           ELSE /\ th_pending' = [th_pending EXCEPT ![t] =
                       append_include(loaded[th_system[t]], th_pending[t],
                                      th_usage[t], parsed_include.value)]
                /\ th_node' = [th_node EXCEPT ![t] = @ + 1]
                /\ UNCHANGED <<pc, th_result, th_system, th_usage>>
    /\ UNCHANGED <<thread_status, thread_ident, system_attr, n_systems, created_by,
                   loaded, returned, n_calls>>
    /\ UNCHANGED <<tokenVars, userVars, viewVars, pureVars>>

\* block.force_save_fields(...); self.system.authored_data_store.cache_fields(block)
GbCacheFields(t) ==
    /\ pc[t] = "gb_parse"
    /\ th_node[t] > Len(Olx(th_usage[t]))
    /\ loaded' = [loaded EXCEPT ![th_system[t]] =
                     cache_fields(@, th_pending[t], th_usage[t])]
    /\ FinishGetBlock(t, Return(th_pending[t].includes))
    /\ UNCHANGED <<thread_status, thread_ident, system_attr, n_systems, created_by,
                   returned, n_calls>>
    /\ UNCHANGED <<tokenVars, userVars, viewVars, pureVars>>

(***************************************************************************)
(* Requests, and the calls made while one is served.                       *)
(***************************************************************************)
HandlerNames == { <<"h", "1">>, <<"h", "2">> }

ExtraParams == { <<>>, << <<<<"q">>, <<"1">>>> >> }

\* The first id stored in each session, once there is one.
FirstIds(first, sess) ==
    [k \in SessionKeys |-> IF first[k] = None THEN sess[k] ELSE first[k]]

\* The values uuid4() may take in a call, where the call draws one.
UuidChoices(user, current_request, sess) ==
    IF /\ is_anonymous(user) /\ user.stored = None
       /\ current_request.kind = "session"
       /\ sess[current_request.session] = None
    THEN UuidHexes ELSE {UuidHex("0")}

KeepTwo(h, e) == IF Len(h) < 2 THEN Append(h, e) ELSE <<h[2], e>>

\* The middleware sets the current request when a request comes in and
\* clears it when the response goes out.
SetCurrentRequest ==
    /\ \E r \in {NoRequest} \cup Requests : r # request /\ request' = r
    /\ UNCHANGED <<sessions, first_id, anon_call, urls>>
    /\ UNCHANGED <<tokenVars, threadVars, viewVars, pureVars>>

GetXBlockIdForAnonymousUser ==
    /\ \E user \in UserArgs :
       \E uuid_hex \in UuidChoices(user, request, sessions) :
          LET r == get_xblock_id_for_anonymous_user(user, request, sessions, uuid_hex)
          IN  /\ sessions' = r.sessions
              /\ first_id' = FirstIds(first_id, r.sessions)
              /\ anon_call' = [user |-> user, request |-> request,
                               exc |-> r.result.exc, value |-> r.result.value,
                               wrote |-> r.sessions # sessions]
    /\ UNCHANGED <<request, urls>>
    /\ UNCHANGED <<tokenVars, threadVars, viewVars, pureVars>>

GetHandlerUrl ==
    /\ \E usage_key \in UsageKeys, handler_name \in HandlerNames, user \in UserArgs,
          extra_params \in ExtraParams :
       \E uuid_hex \in UuidChoices(user, request, sessions) :
          LET r == get_handler_url(usage_key, handler_name, user, extra_params,
                                   request, sessions, uuid_hex, now)
          IN  /\ sessions' = r.sessions
              /\ first_id' = FirstIds(first_id, r.sessions)
              /\ urls' = KeepTwo(urls,
                     [usage_key |-> usage_key, handler_name |-> handler_name,
                      user |-> user, extra_params |-> extra_params, at |-> now,
                      exc |-> r.exc, user_id |-> r.user_id, url |-> r.url])
    /\ UNCHANGED <<request, anon_call>>
    /\ UNCHANGED <<tokenVars, threadVars, viewVars, pureVars>>

(***************************************************************************)
(* Blocks, their views and who may see them.                               *)
(***************************************************************************)
ViewNames == { "public_view", "student_view", "author_view", "studio_view" }

\* The usage key of a block that is in no learning context.
MissingKey == <<"l", "b", ":", "o", ":", "z">>

\* A string that UsageKey.from_string rejects.
InvalidPk == <<"?">>

Pks == Blocks \cup {MissingKey, InvalidPk}

BlockExists(usage_key) == usage_key \in Blocks

\* The permissions of the learning context: user 8 may view every block,
\* everyone else only the block x.
MayView(user, usage_key) ==
    (user.kind = "user" /\ user.id = 8) \/ usage_key = <<"l", "b", ":", "o", ":", "x">>

\* LearningContext.can_view_block: the block exists in the context and the
\* user has permission to view it.
can_view_block(user, usage_key) ==
    BlockExists(usage_key) /\ MayView(user, usage_key)

\* The views the block's class defines; it has no fallback_view.
BlockViews(usage_id) ==
    IF usage_id = <<"l", "b", ":", "o", ":", "x">>
    THEN {"public_view", "student_view"}
    ELSE IF usage_id = LeafKey THEN {"public_view"}
    ELSE {"student_view"}

NoBlock == [usage_id |-> None, user |-> NoneUser, user_id |-> NoId, includes |-> <<>>]

NoFragment == [view |-> "none", usage_id |-> None]

NoCall ==
    [op |-> "none", user |-> NoneUser, pk |-> None, view_name |-> "none",
     request |-> NoRequest, exc |-> "none", runtime_created |-> FALSE,
     get_block_called |-> FALSE, rendered |-> <<>>, invoked |-> <<>>,
     content |-> NoFragment]

(***************************************************************************)
(* api.get_runtime_system and BlockstoreXBlockRuntime.get_block, each as   *)
(* one step of a thread.                                                   *)
(***************************************************************************)
get_runtime_system(ident, attr, n) ==
    LET name == cache_name(ident)
        created == attr[name] = 0
        after == IF created THEN [attr EXCEPT ![name] = n + 1] ELSE attr
    IN  [system |-> after[name], system_attr |-> after, created |-> created]

\* parse_xml: add_node_as_child for each child node in document order, up
\* to the first one that raises.
RECURSIVE parse_xml(_, _, _, _)
parse_xml(store, pending, usage_id, nodes) ==
    IF nodes = <<>> THEN [exc |-> "none", pending |-> pending]
    ELSE LET parsed_include == parse_xblock_include(Head(nodes))
         IN  IF parsed_include.exc # "none"
             THEN [exc |-> parsed_include.exc, pending |-> pending]
             ELSE parse_xml(store,
                            append_include(store, pending, usage_id,
                                           parsed_include.value),
                            usage_id, Tail(nodes))

get_block(store, usage_id) ==
    IF ~BlockExists(usage_id)
    THEN \* def_id is None
         [result |-> Raise("ValueError"), store |-> store]
    ELSE IF has_cached_definition(store, usage_id)
    THEN [result |-> Return(get_includes(store, Unset, usage_id)), store |-> store]
    ELSE LET p == parse_xml(store, Unset, usage_id, Olx(usage_id))
         IN  IF p.exc # "none"
             THEN [result |-> Raise(p.exc), store |-> store]
             ELSE [result |-> Return(p.pending.includes),
                   store |-> cache_fields(store, p.pending, usage_id)]

(***************************************************************************)
(* api.load_block: what it returns or raises, whether it created a runtime *)
(* and called get_block, and the shared objects afterwards.                *)
(***************************************************************************)
load_block(usage_key, user, ident, attr, n, stores, current_request, sess, uuid_hex) ==
    IF user.kind # "none" /\ ~can_view_block(user, usage_key)
    THEN [exc |-> "NotFound", block |-> NoBlock, runtime_created |-> FALSE,
          get_block_called |-> FALSE, system |-> 0, system_attr |-> attr,
          loaded |-> stores, sessions |-> sess]
    ELSE LET grs == get_runtime_system(ident, attr, n)
             runtime == XBlockRuntime_init(user, current_request, sess, uuid_hex)
             gb == get_block(stores[grs.system], usage_key)
         IN  IF runtime.exc # "none"
             THEN [exc |-> runtime.exc, block |-> NoBlock,
                   runtime_created |-> FALSE, get_block_called |-> FALSE,
                   system |-> grs.system, system_attr |-> grs.system_attr,
                   loaded |-> stores, sessions |-> runtime.sessions]
             ELSE [exc |-> gb.result.exc,
                   block |-> IF gb.result.exc # "none" THEN NoBlock
                             ELSE [usage_id |-> usage_key, user |-> user,
                                   user_id |-> runtime.user_id,
                                   includes |-> gb.result.value],
                   runtime_created |-> TRUE, get_block_called |-> TRUE,
                   system |-> grs.system, system_attr |-> grs.system_attr,
                   loaded |-> [stores EXCEPT ![grs.system] = gb.store],
                   sessions |-> runtime.sessions]

(***************************************************************************)
(* XBlockRuntime.render: what it raises, the view code it invokes and the  *)
(* fragment that code produces.                                            *)
(***************************************************************************)
XBlockRuntime_render_open_to_all(user, block, view_name) ==
    IF view_name \notin BlockViews(block.usage_id)
    THEN [exc |-> "NoSuchViewError", invoked |-> <<>>, content |-> NoFragment]
    ELSE [exc |-> "none", invoked |-> <<view_name>>,
          content |-> [view |-> view_name, usage_id |-> block.usage_id]]

XBlockRuntime_render(user, block, view_name) ==
    IF (user.kind = "none" \/ is_anonymous(user)) /\ view_name # "public_view"
    THEN [exc |-> "PermissionDenied", invoked |-> <<>>, content |-> NoFragment]
    ELSE IF view_name \notin BlockViews(block.usage_id)
    THEN \* super().render finds no such view on the block
         [exc |-> "NoSuchViewError", invoked |-> <<>>, content |-> NoFragment]
    ELSE [exc |-> "none", invoked |-> <<view_name>>,
          content |-> [view |-> view_name, usage_id |-> block.usage_id]]

(***************************************************************************)
(* api.render_block_view, after load_block has returned the block.         *)
(***************************************************************************)
render_with_fallback_for_any_view(user, block, view_name) ==
    LET first == XBlockRuntime_render(user, block, view_name)
        second == XBlockRuntime_render(user, block, "student_view")
    IN  IF first.exc = "NoSuchViewError"
        THEN [exc |-> second.exc, rendered |-> <<view_name, "student_view">>,
              invoked |-> second.invoked, content |-> second.content]
        ELSE [exc |-> first.exc, rendered |-> <<view_name>>,
              invoked |-> first.invoked, content |-> first.content]

render_with_fallback(user, block, view_name) ==
    LET first == XBlockRuntime_render(user, block, view_name)
        fallback_view == IF view_name = "author_view" THEN "student_view" ELSE "none"
        second == XBlockRuntime_render(user, block, fallback_view)
    IN  IF first.exc = "NoSuchViewError" /\ fallback_view # "none"
        THEN [exc |-> second.exc, rendered |-> <<view_name, fallback_view>>,
              invoked |-> second.invoked, content |-> second.content]
        ELSE [exc |-> first.exc, rendered |-> <<view_name>>,
              invoked |-> first.invoked, content |-> first.content]

\* What a call of load_block leaves in the shared objects.
ApplyLoad(t, r) ==
    /\ system_attr' = r.system_attr
    /\ n_systems' = IF r.system_attr # system_attr THEN n_systems + 1 ELSE n_systems
    /\ created_by' = IF r.system_attr # system_attr
                     THEN [created_by EXCEPT ![r.system] = t] ELSE created_by
    /\ returned' = IF r.system # 0 THEN [returned EXCEPT ![t] = @ \cup {r.system}]
                   ELSE returned
    /\ loaded' = r.loaded
    /\ sessions' = r.sessions
    /\ first_id' = FirstIds(first_id, r.sessions)

\* Code running on thread t calls load_block(usage_key, user).
LoadBlock(t) ==
    /\ thread_status[t] = "alive"
    /\ pc[t] = "idle"
    /\ \E usage_key \in UsageKeys \cup {MissingKey}, user \in UserArgs :
       \E uuid_hex \in UuidChoices(user, request, sessions) :
          LET r == load_block(usage_key, user, thread_ident[t], system_attr,
                              n_systems, loaded, request, sessions, uuid_hex)
          IN  /\ ApplyLoad(t, r)
              /\ loaded_block' = IF r.exc = "none" THEN r.block ELSE loaded_block
              /\ view_call' = [NoCall EXCEPT !.op = "load_block", !.user = user,
                                  !.pk = usage_key, !.request = request,
                                  !.exc = r.exc,
                                  !.runtime_created = r.runtime_created,
                                  !.get_block_called = r.get_block_called]
    /\ UNCHANGED <<thread_status, thread_ident, pc, th_system, th_usage,
                   th_pending, th_node, th_result, n_calls>>
    /\ UNCHANGED <<request, anon_call, urls>>
    /\ UNCHANGED <<tokenVars, pureVars>>

\* Code that holds a loaded block calls block.render(view_name), which is
\* block.runtime.render(block, view_name).
Render ==
    /\ loaded_block # NoBlock
    /\ \E view_name \in ViewNames :
          LET r == XBlockRuntime_render(loaded_block.user, loaded_block, view_name)
          IN  view_call' = [NoCall EXCEPT !.op = "render",
                               !.user = loaded_block.user,
                               !.pk = loaded_block.usage_id,
                               !.view_name = view_name, !.request = request,
                               !.exc = r.exc, !.rendered = <<view_name>>,
                               !.invoked = r.invoked, !.content = r.content]
    /\ UNCHANGED loaded_block
    /\ UNCHANGED <<tokenVars, threadVars, userVars, pureVars>>

\* The view serves the current request: render_block_view(request, pk,
\* view_name, get_block_metadata), request.user being a registered or an
\* anonymous user.
RenderBlockView(t) ==
    /\ thread_status[t] = "alive"
    /\ pc[t] = "idle"
    /\ request # NoRequest
    /\ \E user \in RegisteredUsers \cup AnonymousUsers, pk \in Pks,
          view_name \in ViewNames :
       \E uuid_hex \in UuidChoices(user, request, sessions) :
          LET r == load_block(pk, user, thread_ident[t], system_attr,
                              n_systems, loaded, request, sessions, uuid_hex)
              v == render_with_fallback(user, r.block, view_name)
              call == [NoCall EXCEPT !.op = "render_block_view", !.user = user,
                          !.pk = pk, !.view_name = view_name,
                          !.request = request]
          IN  IF pk = InvalidPk
              THEN /\ view_call' = [call EXCEPT !.exc = "Http404"]
                   /\ UNCHANGED <<system_attr, n_systems, created_by, returned,
                                  loaded, sessions, first_id>>
              ELSE /\ ApplyLoad(t, r)
                   /\ view_call' =
                         IF r.exc # "none"
                         THEN [call EXCEPT !.exc = r.exc,
                                  !.runtime_created = r.runtime_created,
                                  !.get_block_called = r.get_block_called]
                         ELSE [call EXCEPT !.exc = v.exc,
                                  !.runtime_created = TRUE,
                                  !.get_block_called = TRUE,
                                  !.rendered = v.rendered,
                                  !.invoked = v.invoked, !.content = v.content]
    /\ UNCHANGED loaded_block
    /\ UNCHANGED <<thread_status, thread_ident, pc, th_system, th_usage,
                   th_pending, th_node, th_result, n_calls>>
    /\ UNCHANGED <<request, anon_call, urls>>
    /\ UNCHANGED <<tokenVars, pureVars>>

(***************************************************************************)
(* utils.rewrite_blockstore_runtime_handler_urls: the regular expression,  *)
(* re.sub and the assertion, over strings of characters.                   *)
(***************************************************************************)
\* settings.LMS_ROOT_PUBLIC, a host name (it stands for https://lms.domain).
LMS_ROOT_PUBLIC == <<"l", ".", "d">>

ApiPrefix ==
    <<"/", "a", "p", "i", "/", "x", "b", "l", "o", "c", "k", "/", "v", "2",
      "/", "x", "b", "l", "o", "c", "k", "s", "/">>

HandlerPart == <<"/", "h", "a", "n", "d", "l", "e", "r", "/">>

\* \w, for the characters that occur in the model.
WordChars ==
    { "a", "b", "c", "d", "e", "f", "g", "h", "i", "j", "k", "l", "m", "n", "o",
      "p", "q", "r", "s", "t", "u", "v", "w", "x", "y", "z", "_" }
        \cup { DigitChars[i] : i \in DOMAIN DigitChars }

PunctChars == { ":", "/", ".", "-", "\"", "'", "?", "&", "#", ";", " ", "=", "<", ">" }

\* [^/"']
BlockIdChars == (WordChars \cup PunctChars) \ { "/", "\"", "'" }

\* [\w\-]
HandlerNameChars == WordChars \cup { "-" }

\* The end of the longest run of characters of class from position i on.
RECURSIVE RunEnd(_, _, _)
RunEnd(s, i, class) ==
    IF i <= Len(s) /\ s[i] \in class THEN RunEnd(s, i + 1, class) ELSE i

\* A pattern without escapes matched at position i, as it is written in the
\* source and as it is once every character of it is escaped: a "." of the
\* pattern as written matches any character.  The position after the match,
\* 0 if there is none.
RECURSIVE MatchEscaped(_, _, _)
MatchEscaped(s, i, pattern) ==
    IF pattern = <<>> THEN i
    ELSE IF i > Len(s) THEN 0
    ELSE IF Head(pattern) = s[i]
    THEN MatchEscaped(s, i + 1, Tail(pattern))
    ELSE 0

RECURSIVE MatchPattern(_, _, _)
MatchPattern(s, i, pattern) ==
    IF pattern = <<>> THEN i
    ELSE IF i > Len(s) THEN 0
    ELSE IF Head(pattern) = "." \/ Head(pattern) = s[i]
    THEN MatchPattern(s, i + 1, Tail(pattern))
    ELSE 0

\* Whether s has sub at position i, and whether it has it anywhere.
HasAt(s, i, sub) ==
    i + Len(sub) - 1 <= Len(s) /\ SubSeq(s, i, i + Len(sub) - 1) = sub

Contains(s, sub) == \E i \in 1..Len(s) : HasAt(s, i, sub)

NoMatch == [ok |-> FALSE, end |-> 0, block_id |-> <<>>, handler_name |-> <<>>]

\* The one element of a set of one element.
Only(S) == CHOOSE x \in S : TRUE

\* handler_url_pattern matched at position i, group by group.  Every group
\* is a run of one class that the next thing in the pattern is not in, so
\* the longest run is the only one that can match.  a is where block_id
\* starts and g where handler_name starts.
MatchHandlerName(s, a, b, g, h) ==
    IF h = g THEN NoMatch
    ELSE [ok |-> TRUE, end |-> h, block_id |-> SubSeq(s, a, b - 1),
          handler_name |-> SubSeq(s, g, h - 1)]

MatchSlash(s, a, b, g) ==
    IF g = 0 THEN NoMatch
    ELSE Only({ MatchHandlerName(s, a, b, g, h) :
                    h \in {RunEnd(s, g, HandlerNameChars)} })

MatchSecureToken(s, a, b, e, f) ==
    IF f = e THEN NoMatch
    ELSE Only({ MatchSlash(s, a, b, g) : g \in {MatchEscaped(s, f, <<"/">>)} })

MatchHyphen(s, a, b, e) ==
    IF e = 0 THEN NoMatch
    ELSE Only({ MatchSecureToken(s, a, b, e, f) : f \in {RunEnd(s, e, WordChars)} })

MatchUserId(s, a, b, c, d) ==
    IF d = c THEN NoMatch
    ELSE Only({ MatchHyphen(s, a, b, e) : e \in {MatchEscaped(s, d, <<"-">>)} })

MatchHandlerPart(s, a, b, c) ==
    IF c = 0 THEN NoMatch
    ELSE Only({ MatchUserId(s, a, b, c, d) : d \in {RunEnd(s, c, WordChars)} })

MatchBlockId(s, a, b) ==
    IF b = a THEN NoMatch
    ELSE Only({ MatchHandlerPart(s, a, b, c) : c \in {MatchEscaped(s, b, HandlerPart)} })

MatchRoot(s, a) ==
    IF a = 0 THEN NoMatch
    ELSE Only({ MatchBlockId(s, a, b) : b \in {RunEnd(s, a, BlockIdChars)} })

MatchHandlerUrl(s, i) ==
    Only({ MatchRoot(s, a) : a \in {MatchPattern(s, i, LMS_ROOT_PUBLIC \o ApiPrefix)} })

\* The hexadecimal digest as it is written into a URL.
hexdigest_str(h) == <<"#">> \o h.msg

\* drf_reverse('api:v1:xblocks-secure-handler', request=request, kwargs=...):
\* the absolute URL of the view on this site.
reverse_secure_handler(pk, username, secure_key, handler_name) ==
    <<"B", "/">> \o pk \o HandlerPart \o username \o <<"-">>
        \o hexdigest_str(secure_key) \o <<"/">> \o handler_name

\* utils.get_secure_xblock_handler_url, request.user.username being username.
get_secure_xblock_handler_url(username, block_key_str, handler_name, t) ==
    LET secure_key == get_secure_hash_for_xblock_handler(username, block_key_str, 0, t)
    IN  reverse_secure_handler(block_key_str, username, secure_key, handler_name)

\* re.sub(handler_url_pattern, get_secure_xblock_handler_url_for_match, html),
\* from position i on: the text up to the leftmost match, its replacement
\* and the rest after it.
RECURSIVE re_sub(_, _, _, _)
re_sub_match(html, i, j, match, username, t) ==
    SubSeq(html, i, j - 1)
        \o get_secure_xblock_handler_url(username, match.block_id,
                                         match.handler_name, t)
        \o re_sub(html, match.end, username, t)

re_sub_from(html, i, starts, username, t) ==
    IF starts = {} THEN SubSeq(html, i, Len(html))
    ELSE Only({ re_sub_match(html, i, j, MatchHandlerUrl(html, j), username, t) :
                    j \in { k \in starts : \A l \in starts : k <= l } })

re_sub(html, i, username, t) ==
    Only({ re_sub_from(html, i, starts, username, t) :
               starts \in { { j \in i..Len(html) : MatchHandlerUrl(html, j).ok } } })

rewrite_blockstore_runtime_handler_urls(html, username, t) ==
    Only({ IF Contains(out, LMS_ROOT_PUBLIC \o ApiPrefix)
           THEN Raise("AssertionError")
           ELSE Return(out) : out \in {re_sub(html, 1, username, t)} })

(***************************************************************************)
(* The HTML the function is given: text, a URL, what follows it and        *)
(* perhaps a second URL.                                                   *)
(***************************************************************************)
\* A host name that is not the LMS's.
OtherRoot == <<"l", "x", "d">>

\* <root>/api/xblock/v2/xblocks/<block_id>/handler/<user_id>-<token>/<handler_name>
HandlerUrl(u) ==
    u.root \o ApiPrefix \o u.block_id \o HandlerPart \o u.user_id \o <<"-">>
        \o u.secure_token \o <<"/">> \o u.handler_name

\* <root>/api/xblock/v2/xblocks/<block_id>/view/<view_name>/, not a handler URL.
ViewUrl(u) ==
    u.root \o ApiPrefix \o u.block_id \o <<"/", "v", "i", "e", "w", "/">>
        \o u.handler_name \o <<"/">>

UrlText(u) ==
    IF u.kind = "none" THEN <<>>
    ELSE IF u.kind = "handler" THEN HandlerUrl(u) ELSE ViewUrl(u)

NoUrlPart ==
    [kind |-> "none", root |-> <<>>, block_id |-> <<>>, user_id |-> <<>>,
     secure_token |-> <<>>, handler_name |-> <<>>]

FirstUrls ==
    [kind : {"handler"}, root : {LMS_ROOT_PUBLIC, OtherRoot},
     block_id : UsageKeys, user_id : { <<"8">>, AnonPrefix \o <<"0">> },
     secure_token : { <<"7", "f">> },
     handler_name : HandlerNames \cup { <<"h", "-", "1">> }]

SecondUrls ==
    { NoUrlPart,
      [kind |-> "handler", root |-> LMS_ROOT_PUBLIC, block_id |-> LeafKey,
       user_id |-> <<"8">>, secure_token |-> <<"7", "f">>,
       handler_name |-> <<"h", "2">>],
      [kind |-> "view", root |-> LMS_ROOT_PUBLIC, block_id |-> LeafKey,
       user_id |-> <<>>, secure_token |-> <<>>,
       handler_name |-> <<"v">>] }

\* What stands before the first URL.
Leads == { <<>>, <<"<", "a", " ", "h", "=", "\"">> }

\* What follows the handler name: nothing, a suffix path and a query string,
\* a closing quote, an entity.
Trails ==
    { <<>>, <<"/", "s", "?", "q">>, <<"\"", ">">>, <<"&", "#", "3", "4", ";">> }

\* What stands between the two URLs.
Between == <<" ", "'">>

HtmlOf(p) ==
    p.lead \o UrlText(p.first) \o p.trail
        \o (IF p.second.kind = "none" THEN <<>> ELSE Between \o UrlText(p.second))

NoRewrite ==
    [called |-> FALSE, lead |-> <<>>, first |-> NoUrlPart, trail |-> <<>>,
     second |-> NoUrlPart, html |-> <<>>, exc |-> "none", result |-> <<>>]

\* A view rewrites the HTML of a rendered block for the user al, once.
RewriteHandlerUrls ==
    /\ ~rewrite_call.called
    /\ \E lead \in Leads, first \in FirstUrls, trail \in Trails,
          second \in SecondUrls :
       \E html \in { HtmlOf([lead |-> lead, first |-> first, trail |-> trail,
                              second |-> second]) } :
       \E r \in { rewrite_blockstore_runtime_handler_urls(html, <<"a", "l">>, now) } :
          rewrite_call' =
              [called |-> TRUE, lead |-> lead, first |-> first,
               trail |-> trail, second |-> second, html |-> html,
               exc |-> r.exc,
               result |-> IF r.exc = "none" THEN r.value ELSE <<>>]
    /\ UNCHANGED <<tokenVars, threadVars, userVars, viewVars, field_data_call,
                   static_call, include_call>>

(***************************************************************************)
(* The field data of a block.  A store is named by the class of the object *)
(* the system holds; NoStore is Python's None in the place of a store.     *)
(***************************************************************************)
STUDENT_DATA_EPHEMERAL == "ephemeral"
STUDENT_DATA_PERSISTED == "persisted"

\* What a caller may pass as student_data_mode.
StudentDataModes == { STUDENT_DATA_EPHEMERAL, STUDENT_DATA_PERSISTED, "database" }

AuthoredScopes == { "content", "settings", "parent" }

UserScopes == { "user_state_summary", "user_state", "user_info", "preferences" }

Scopes == AuthoredScopes \cup { "children" } \cup UserScopes

NoStore == "None"

NoSystem ==
    [authored_data_store |-> NoStore, children_data_store |-> NoStore,
     student_data_mode |-> "none"]

\* XBlockRuntimeSystem.__init__: the stores and the mode of the new system.
XBlockRuntimeSystem_init(student_data_mode) ==
    IF student_data_mode \notin { STUDENT_DATA_EPHEMERAL, STUDENT_DATA_PERSISTED }
    THEN Raise("AssertionError")
    ELSE [exc |-> "none",
          value |-> [authored_data_store |-> "BlockstoreFieldData",
                     children_data_store |-> "BlockstoreChildrenData",
                     student_data_mode |-> student_data_mode]]

\* XBlockRuntime._init_field_data_for_block: the scope mappings of the
\* SplitFieldData it returns.
init_field_data_for_block(system, block) ==
    [scope \in Scopes |->
        IF scope \in AuthoredScopes THEN system.authored_data_store
        ELSE IF scope = "children" THEN system.children_data_store
        ELSE NoStore]

NoFieldData ==
    [called |-> FALSE, student_data_mode |-> "none", user |-> NoneUser,
     block |-> None, scope |-> "none", exc |-> "none", system |-> NoSystem,
     mappings |-> [scope \in Scopes |-> NoStore], store |-> NoStore]

\* A system is built with a student data mode, a runtime of it for a user,
\* the field data of one block, and the store of one scope is looked up.
InitFieldDataForBlock ==
    /\ ~field_data_call.called
    /\ \E student_data_mode \in StudentDataModes,
          user \in {NoneUser} \cup RegisteredUsers,
          block \in Blocks, scope \in Scopes :
       \E system \in { XBlockRuntimeSystem_init(student_data_mode) } :
          field_data_call' =
              IF system.exc # "none"
              THEN [NoFieldData EXCEPT !.called = TRUE,
                        !.student_data_mode = student_data_mode,
                        !.user = user, !.block = block, !.scope = scope,
                        !.exc = system.exc]
              ELSE [called |-> TRUE, student_data_mode |-> student_data_mode,
                    user |-> user, block |-> block, scope |-> scope,
                    exc |-> "none", system |-> system.value,
                    mappings |-> init_field_data_for_block(system.value, block),
                    store |-> init_field_data_for_block(system.value, block)[scope]]
    /\ UNCHANGED <<tokenVars, threadVars, userVars, viewVars, rewrite_call,
                   static_call, include_call>>

(***************************************************************************)
(* process_static_urls.                                                    *)
(***************************************************************************)
STATIC_URL == <<"/", "m", "/">>

StaticDir == <<"/", "s", "t", "a", "t", "i", "c", "/">>

QuoteChars == { "'", "\"" }

\* '{data_dir}'.format(data_dir=data_dir): None is formatted as the text None.
format_data_dir(data_dir) ==
    IF data_dir = None THEN <<"N", "o", "n", "e">> ELSE data_dir

NoStaticMatch ==
    [ok |-> FALSE, end |-> 0, original |-> <<>>, prefix |-> <<>>,
     quote |-> <<>>, rest |-> <<>>]

\* (?P<quote>\\?['"]) at position i: the quote matched, <<>> if none.
QuoteAt(s, i) ==
    IF i < Len(s) /\ s[i] = "\\" /\ s[i + 1] \in QuoteChars
    THEN <<s[i], s[i + 1]>>
    ELSE IF i <= Len(s) /\ s[i] \in QuoteChars THEN <<s[i]>>
    ELSE <<>>

\* One alternative of (?:STATIC_URL|/static/) at position j followed by
\* (?!data_dir): the position after the prefix, 0 if it does not match.
PrefixEnd(s, j, prefix, data_dir) ==
    Only({ IF e # 0 /\ ~HasAt(s, e, format_data_dir(data_dir)) THEN e ELSE 0 :
               e \in { MatchPattern(s, j, prefix) } })

\* (?P<rest>.*?)(?P=quote) from position e on: where the first closing
\* quote that only characters other than a newline separate from e begins.
ClosingQuotes(s, e, q) ==
    { k \in e..Len(s) : HasAt(s, k, q) /\ \A l \in e..(k - 1) : s[l] # "\n" }

MatchRest(s, i, q, e, closing) ==
    IF closing = {} THEN NoStaticMatch
    ELSE Only({ [ok |-> TRUE, end |-> k + Len(q),
                 original |-> SubSeq(s, i, k + Len(q) - 1),
                 prefix |-> SubSeq(s, i + Len(q), e - 1),
                 quote |-> q,
                 rest |-> SubSeq(s, e, k - 1)] :
                    k \in { m \in closing : \A n \in closing : m <= n } })

MatchFromPrefix(s, i, q, e) ==
    IF e = 0 THEN NoStaticMatch
    ELSE MatchRest(s, i, q, e, ClosingQuotes(s, e, q))

MatchAlternatives(s, i, q, data_dir) ==
    Only({ IF first.ok THEN first
           ELSE MatchFromPrefix(s, i, q,
                    PrefixEnd(s, i + Len(q), StaticDir, data_dir)) :
               first \in { MatchFromPrefix(s, i, q,
                              PrefixEnd(s, i + Len(q), STATIC_URL, data_dir)) } })

\* _url_replace_regex matched at position i.
url_replace_regex(s, i, data_dir) ==
    Only({ IF q = <<>> THEN NoStaticMatch ELSE MatchAlternatives(s, i, q, data_dir) :
               q \in { QuoteAt(s, i) } })

\* The replacement function a caller passes: it gets original, prefix, quote
\* and rest, and gives the quoted URL it puts in their place.
replacement_function(original, prefix, quote, rest) ==
    quote \o <<"@">> \o rest \o quote

\* The arguments wrap_part_extraction forwards for a match.
CallOf(match) ==
    [original |-> match.original, prefix |-> match.prefix,
     quote |-> match.quote, rest |-> match.rest]

\* re.sub(_url_replace_regex(...), wrap_part_extraction, text) from position
\* i on: the text it builds and the calls of the replacement function.
RECURSIVE static_sub(_, _, _)
static_sub_match(text, i, j, match, tail) ==
    [out |-> SubSeq(text, i, j - 1)
                 \o replacement_function(match.original, match.prefix,
                                         match.quote, match.rest)
                 \o tail.out,
     calls |-> <<CallOf(match)>> \o tail.calls]

static_sub_at(text, i, j, match, data_dir) ==
    Only({ static_sub_match(text, i, j, match, tail) :
               tail \in { static_sub(text, match.end, data_dir) } })

static_sub_from(text, i, starts, data_dir) ==
    IF starts = {} THEN [out |-> SubSeq(text, i, Len(text)), calls |-> <<>>]
    ELSE Only({ static_sub_at(text, i, j, match, data_dir) :
                    <<j, match>> \in
                        { <<k, url_replace_regex(text, k, data_dir)>> :
                              k \in { m \in starts : \A n \in starts : m <= n } } })

static_sub(text, i, data_dir) ==
    Only({ static_sub_from(text, i, starts, data_dir) :
               starts \in { { j \in i..Len(text) :
                                url_replace_regex(text, j, data_dir).ok } } })

process_static_urls(text, data_dir) == static_sub(text, 1, data_dir)

(***************************************************************************)
(* The text process_static_urls is given: text, a quoted URL of a prefix   *)
(* and a path, closed or not, and what follows it.                         *)
(***************************************************************************)
OpeningQuotes == { <<"\"">>, <<"'">>, <<"\\", "\"">> }

\* The other quote character.
OtherQuote(q) == IF q = <<"'">> THEN <<"\"">> ELSE <<"'">>

UrlPrefixes == { StaticDir, STATIC_URL, <<"/", "x", "/">> }

UrlPaths ==
    { <<>>, <<"a", ".", "b">>, <<"a", "?", "r", "a", "w">>,
      <<"N", "o", "n", "e">>, <<"N", "o", "n", "e", "/", "a">>,
      <<"n", "o", "n", "e">>, <<"a", "/", "N", "o", "n", "e">> }

Closings == { "same", "other", "none" }

TextLeads == { <<>>, <<"x", "=">> }

TextTrails == { <<>>, <<">">>, <<" ", "y", "=", "'", "/", "m", "/", "c", "'">> }

ClosingText(p) ==
    IF p.closing = "same" THEN p.quote
    ELSE IF p.closing = "other" THEN OtherQuote(p.quote)
    ELSE <<>>

\* A second quoted URL follows only a URL that is closed.
StaticTexts ==
    { p \in [lead : TextLeads, quote : OpeningQuotes, prefix : UrlPrefixes,
             path : UrlPaths, closing : Closings, trail : TextTrails] :
          Len(p.trail) > 1 => p.closing = "same" }

TextOf(p) ==
    p.lead \o p.quote \o p.prefix \o p.path \o ClosingText(p) \o p.trail

NoStaticCall ==
    [called |-> FALSE,
     parts |-> [lead |-> <<>>, quote |-> <<"'">>, prefix |-> <<>>, path |-> <<>>,
                closing |-> "none", trail |-> <<>>],
     text |-> <<>>, out |-> <<>>, calls |-> <<>>]

\* The runtime expands the static URLs of one text, without data_dir.
ProcessStaticUrls ==
    /\ ~static_call.called
    /\ \E p \in StaticTexts :
       \E text \in { TextOf(p) } :
       \E r \in { process_static_urls(text, None) } :
          static_call' = [called |-> TRUE, parts |-> p, text |-> text,
                          out |-> r.out, calls |-> r.calls]
    /\ UNCHANGED <<tokenVars, threadVars, userVars, viewVars, rewrite_call,
                   field_data_call, include_call>>

(***************************************************************************)
(* The nodes parse_xblock_include is given: a tag and the attributes the   *)
(* element has, each a string.                                             *)
(***************************************************************************)
NodeTags == { "xblock-include", "xblock", "Comment" }

Definitions ==
    { <<>>, <<"/">>, <<"h", "a">>, <<"h", "/", "a">>, <<"h", "/">>,
      <<"/", "a">>, <<"/", "/">>, <<"h", "/", "a", "/", "b">>,
      <<"h", "/", "a", "/">> }

AttribNames == { "definition", "source", "usage" }

AttribValues(name) ==
    IF name = "definition" THEN Definitions
    ELSE IF name = "source" THEN { <<"l">> }
    ELSE { <<"u">> }

\* Every attrib dictionary over a set of names.
Attribs == UNION { { a \in [names -> Definitions \cup { <<"l">>, <<"u">> }] :
                        \A name \in names : a[name] \in AttribValues(name) } :
                   names \in SUBSET AttribNames }

IncludeNodes == [tag : NodeTags, attrib : Attribs]

NoInclude ==
    [called |-> FALSE, include_node |-> [tag |-> "none", attrib |-> <<>>],
     result |-> Raise("none")]

\* The parser hands one child node of a block's OLX to parse_xblock_include.
ParseXBlockInclude ==
    /\ ~include_call.called
    /\ \E include_node \in IncludeNodes :
       \E r \in { parse_xblock_include(include_node) } :
          include_call' = [called |-> TRUE, include_node |-> include_node,
                           result |-> r]
    /\ UNCHANGED <<tokenVars, threadVars, userVars, viewVars, rewrite_call,
                   field_data_call, static_call>>

(***************************************************************************)
(* The clock.                                                              *)
(***************************************************************************)
TickSeconds ==
    /\ ticks < MaxTicks
    /\ \E d \in {1, TOKEN_PERIOD - 1} : now' = AddSeconds(now, d)
    /\ ticks' = ticks + 1
    /\ UNCHANGED tokens
    /\ UNCHANGED <<threadVars, userVars, viewVars, pureVars>>

TickPeriods ==
    /\ ticks < MaxTicks
    /\ \E n \in {1, TOKEN_PERIOD} : now' = AddPeriods(now, n)
    /\ ticks' = ticks + 1
    /\ UNCHANGED tokens
    /\ UNCHANGED <<threadVars, userVars, viewVars, pureVars>>

\* A caller computes the token of a user and a block now.
IssueToken ==
    /\ \E u \in Usernames, b \in UsageKeys :
          tokens' = Push(tokens,
              [username |-> u, block_key_str |-> b, at |-> now,
               token |-> get_secure_hash_for_xblock_handler(u, b, 0, now)])
    /\ UNCHANGED <<now, ticks>>
    /\ UNCHANGED <<threadVars, userVars, viewVars, pureVars>>

(***************************************************************************)
(* Specifications.                                                         *)
(***************************************************************************)
vars == <<tokenVars, threadVars, userVars, viewVars, pureVars>>

Init ==
    /\ now = [q |-> StartPeriod, r |-> 0]
    /\ ticks = 0
    /\ tokens = <<>>
    /\ thread_status = [t \in Threads |-> IF t = 1 THEN "alive" ELSE "new"]
    /\ thread_ident = [t \in Threads |-> IF t = 1 THEN 1 ELSE 0]
    /\ pc = [t \in Threads |-> "idle"]
    /\ system_attr = [i \in Idents |-> 0]
    /\ n_systems = 0
    /\ created_by = [s \in SystemIds |-> 0]
    /\ loaded = [s \in SystemIds |-> [u \in Blocks |-> NotCached]]
    /\ th_system = [t \in Threads |-> 0]
    /\ th_usage = [t \in Threads |-> None]
    /\ th_pending = [t \in Threads |-> Unset]
    /\ th_node = [t \in Threads |-> 1]
    /\ th_result = [t \in Threads |-> [usage_id |-> None, exc |-> "none", value |-> None]]
    /\ returned = [t \in Threads |-> {}]
    /\ n_calls = 0
    /\ sessions = [k \in SessionKeys |-> None]
    /\ first_id = [k \in SessionKeys |-> None]
    /\ request = NoRequest
    /\ anon_call = [user |-> NoneUser, request |-> NoRequest, exc |-> "TypeError",
                    value |-> None, wrote |-> FALSE]
    /\ urls = <<>>
    /\ loaded_block = NoBlock
    /\ view_call = NoCall
    /\ rewrite_call = NoRewrite
    /\ field_data_call = NoFieldData
    /\ static_call = NoStaticCall
    /\ include_call = NoInclude

NextToken == TickSeconds \/ TickPeriods \/ IssueToken

SpecToken == Init /\ [][NextToken]_vars

NextThreads ==
    \E t \in Threads :
        \/ StartThread(t)
        \/ ExitThread(t)
        \/ BeginGetBlock(t)
        \/ GrsHasattr(t)
        \/ GrsSetattr(t)
        \/ GrsGetattr(t)
        \/ GbHasCached(t)
        \/ GbConstruct(t)
        \/ GbParseNode(t)
        \/ GbCacheFields(t)

SpecThreads == Init /\ [][NextThreads]_vars

NextAnon == SetCurrentRequest \/ GetXBlockIdForAnonymousUser

SpecAnon == Init /\ [][NextAnon]_vars

NextUrl == SetCurrentRequest \/ GetHandlerUrl

SpecUrl == Init /\ [][NextUrl]_vars

NextView ==
    \/ SetCurrentRequest
    \/ Render
    \/ \E t \in Threads : LoadBlock(t) \/ RenderBlockView(t)

SpecView == Init /\ [][NextView]_vars

NextRewrite == RewriteHandlerUrls

SpecRewrite == Init /\ [][NextRewrite]_vars

NextFieldData == InitFieldDataForBlock

SpecFieldData == Init /\ [][NextFieldData]_vars

NextStatic == ProcessStaticUrls

SpecStatic == Init /\ [][NextStatic]_vars

NextInclude == ParseXBlockInclude

SpecInclude == Init /\ [][NextInclude]_vars

(***************************************************************************)
(* The claims.                                                             *)
(***************************************************************************)
Range(s) == { s[i] : i \in DOMAIN s }

\* The two tokens a checker is told to try at time t.
CheckedTokens(username, block_key_str, t) ==
    { get_secure_hash_for_xblock_handler(username, block_key_str, idx, t) :
        idx \in {0, -1} }

\* C1: a token issued at time t is one of the two tokens a checker tries
\* (time_idx 0 and -1) at every time t' with t <= t' < t + TOKEN_PERIOD.
C1_ValidForOnePeriod ==
    \A i \in Range(tokens) :
        WithinOnePeriod(i.at, now) =>
            i.token \in CheckedTokens(i.username, i.block_key_str, now)

\* C2: a token issued at time t is neither of the two tokens a checker
\* tries at any time t' >= t + 2 * TOKEN_PERIOD.
C2_ExpiresAfterTwoPeriods ==
    \A i \in Range(tokens) :
        AtLeastTwoPeriods(i.at, now) =>
            i.token \notin CheckedTokens(i.username, i.block_key_str, now)

C4_NoDuplicateChildren ==
    /\ \A s \in SystemIds : \A u \in Blocks :
          loaded[s][u].cached => loaded[s][u].includes = IncludesOf(Olx(u))
    /\ \A t \in Threads :
          /\ (th_result[t].usage_id # None /\ th_result[t].exc = "none") =>
                th_result[t].value = IncludesOf(Olx(th_result[t].usage_id))
          /\ pc[t] = "gb_parse" =>
                th_pending[t].includes =
                    IncludesOf(SubSeq(Olx(th_usage[t]), 1, th_node[t] - 1))

\* C4's case: a thread is in the middle of parsing a block's children while
\* another live thread has parsed and cached the same block.
C4_Witness ==
    \E t1 \in Threads : \E t2 \in Threads \ {t1} :
        /\ thread_status[t1] = "alive" /\ thread_status[t2] = "alive"
        /\ pc[t1] = "gb_parse" /\ th_node[t1] = 2
        /\ th_result[t2].usage_id = th_usage[t1] /\ pc[t2] = "idle"
        /\ returned[t2] # {} /\ returned[t2] # {th_system[t1]}
        /\ \A s \in returned[t2] :
              /\ loaded[s][th_usage[t1]].cached
              /\ Len(loaded[s][th_usage[t1]].includes) = 2

\* C5, as claimed: load_block raises NotFound whenever the block does not
\* exist or the given user may not view it, whatever the user argument, and
\* then no runtime was created and get_block was not called.
C5_NotFoundWhenMissingOrForbidden ==
    (/\ view_call.op = "load_block"
     /\ \/ ~BlockExists(view_call.pk)
        \/ view_call.user.kind # "none" /\ ~MayView(view_call.user, view_call.pk))
    => /\ view_call.exc = "NotFound"
       /\ ~view_call.runtime_created
       /\ ~view_call.get_block_called

\* The calls of get_handler_url that returned a URL.
UrlsReturned == { c \in Range(urls) : c.exc = "none" }

\* C6: for the same user id, usage key and time period, the URLs returned
\* for any two handler names carry the same secure token and differ only in
\* the handler name (the other arguments being the same).
C6_TokenIndependentOfHandler ==
    \A a \in UrlsReturned, b \in UrlsReturned :
        (/\ a.user_id = b.user_id
         /\ a.usage_key = b.usage_key
         /\ FloorDivPeriod(a.at) = FloorDivPeriod(b.at))
        => /\ a.url.secure_key = b.url.secure_key
           /\ a.extra_params = b.extra_params =>
                 [a.url EXCEPT !.handler_name = b.url.handler_name] = b.url

\* C6's case: URLs were returned for two different handlers of the same
\* block to the same user.
C6_Witness ==
    \E a \in UrlsReturned, b \in UrlsReturned :
        /\ a.handler_name # b.handler_name
        /\ a.user_id = b.user_id
        /\ a.usage_key = b.usage_key
        /\ a.extra_params = b.extra_params

C8_AnonymousIdsNeverCollide ==
    \A a \in UrlsReturned, b \in UrlsReturned :
        (is_authenticated(a.user) /\ is_anonymous(b.user))
        => /\ a.user_id # b.user_id
           /\ IntToStr(a.user.id) # b.user_id

\* C9, as claimed: a stored id supersedes everything else; in a session the
\* first id created is the one every call returns and it is never
\* overwritten; a non-anonymous or missing user raises TypeError and an
\* anonymous user outside a request with a session raises RuntimeError,
\* both without writing to any session.
C9_StableIdPerSession ==
    /\ \A k \in SessionKeys : first_id[k] # None => sessions[k] = first_id[k]
    /\ LET c == anon_call
       IN  IF c.user.kind = "none" \/ ~is_anonymous(c.user)
           THEN c.exc = "TypeError" /\ ~c.wrote
           ELSE IF c.user.stored # None
           THEN c.exc = "none" /\ c.value = c.user.stored /\ ~c.wrote
           ELSE IF c.request.kind = "session"
           THEN c.exc = "none" /\ c.value = first_id[c.request.session]
           ELSE c.exc = "RuntimeError" /\ ~c.wrote

\* C10: when the user is None or anonymous, render invokes no view code but
\* public_view's and returns no other content; asked for any other view it
\* raises PermissionDenied at once, so render_block_view asks for nothing
\* else either.
C10_OnlyPublicViewWhenNotLoggedIn ==
    (/\ view_call.op \in {"render", "render_block_view"}
     /\ view_call.user.kind = "none" \/ is_anonymous(view_call.user))
    => /\ \A i \in DOMAIN view_call.invoked : view_call.invoked[i] = "public_view"
       /\ view_call.content.view \in {"none", "public_view"}
       /\ (view_call.rendered # <<>> /\ view_call.view_name # "public_view")
             => /\ view_call.exc = "PermissionDenied"
                /\ view_call.invoked = <<>>
                /\ view_call.rendered = <<view_call.view_name>>

\* C10's case: render_block_view loaded a block for an anonymous user who
\* asked for author_view, and render raised PermissionDenied.
C10_Witness ==
    /\ view_call.op = "render_block_view"
    /\ is_anonymous(view_call.user)
    /\ view_call.view_name = "author_view"
    /\ view_call.get_block_called
    /\ view_call.rendered = <<"author_view">>
    /\ view_call.exc = "PermissionDenied"

\* What render_block_view does once load_block has returned a block that
\* has no view named view_name: student_view is rendered after author_view
\* and after no other view, and NoSuchViewError propagates otherwise, also
\* from the fallback.
FallbackOnlyFromAuthorView(c) ==
    IF c.view_name = "author_view"
    THEN /\ c.rendered = <<"author_view", "student_view">>
         /\ IF "student_view" \in BlockViews(c.pk)
            THEN /\ c.exc = "none"
                 /\ c.invoked = <<"student_view">>
                 /\ c.content = [view |-> "student_view", usage_id |-> c.pk]
            ELSE c.exc = "NoSuchViewError" /\ c.invoked = <<>>
    ELSE /\ c.rendered = <<c.view_name>>
         /\ c.exc = "NoSuchViewError"
         /\ c.invoked = <<>>
         /\ c.content = NoFragment

SecureUrlFor(u) ==
    get_secure_xblock_handler_url(<<"a", "l">>, u.block_id, u.handler_name, now)

\* A URL of the HTML as it should come out: replaced if it is a handler URL
\* of the LMS, unchanged otherwise.
RewrittenUrl(u) ==
    IF u.kind = "handler" /\ u.root = LMS_ROOT_PUBLIC
    THEN SecureUrlFor(u) ELSE UrlText(u)

RewrittenHtml(c) ==
    c.lead \o RewrittenUrl(c.first) \o c.trail
        \o (IF c.second.kind = "none" THEN <<>>
            ELSE Between \o RewrittenUrl(c.second))

\* C12, as claimed: every handler URL of the LMS in the HTML is replaced by
\* the secure handler URL for its block and handler, what follows the
\* handler name is kept, and every other character of the HTML comes out
\* unchanged; nothing is raised when the HTML has no other URL of the LMS's
\* XBlock API.
C12_RewritesOnlyLmsHandlerUrls ==
    rewrite_call.called =>
        /\ rewrite_call.exc = "none" => rewrite_call.result = RewrittenHtml(rewrite_call)
        /\ rewrite_call.second.kind # "view" => rewrite_call.exc = "none"

\* C13, as claimed: in a system whose student_data_mode is 'persisted' the
\* field data of a block routes each user scope to a store of its own for
\* student data (neither None nor a store of authored data), the authored
\* scopes to the system's authored data store and the children scope to its
\* children data store.
C13_PersistedStudentDataHasStore ==
    (/\ field_data_call.called
     /\ field_data_call.exc = "none"
     /\ field_data_call.student_data_mode = STUDENT_DATA_PERSISTED)
    => /\ \A scope \in UserScopes :
              field_data_call.mappings[scope] \notin
                  { NoStore, field_data_call.system.authored_data_store,
                    field_data_call.system.children_data_store }
       /\ \A scope \in AuthoredScopes :
              field_data_call.mappings[scope] = field_data_call.system.authored_data_store
       /\ field_data_call.mappings["children"] = field_data_call.system.children_data_store

\* Whether the first quoted URL of the text is what the claim describes: an
\* opening quote, '/static/' or STATIC_URL, a path and the same quote closing.
IsStaticUrl(p) == p.prefix \in { StaticDir, STATIC_URL } /\ p.closing = "same"

FirstCall(p) ==
    [original |-> p.quote \o p.prefix \o p.path \o p.quote,
     prefix |-> p.prefix, quote |-> p.quote, rest |-> p.path]

SecondCall ==
    [original |-> <<"'", "/", "m", "/", "c", "'">>, prefix |-> STATIC_URL,
     quote |-> <<"'">>, rest |-> <<"c">>]

Replaced(call) ==
    replacement_function(call.original, call.prefix, call.quote, call.rest)

ExpectedCalls(p) ==
    (IF IsStaticUrl(p) THEN <<FirstCall(p)>> ELSE <<>>)
        \o (IF Len(p.trail) > 1 THEN <<SecondCall>> ELSE <<>>)

ExpectedText(p) ==
    p.lead
        \o (IF IsStaticUrl(p) THEN Replaced(FirstCall(p))
            ELSE p.quote \o p.prefix \o p.path \o ClosingText(p))
        \o (IF Len(p.trail) > 1
            THEN <<" ", "y", "=">> \o Replaced(SecondCall) ELSE p.trail)

\* C14, as claimed: without data_dir every quoted URL that starts with
\* '/static/' or STATIC_URL is passed to the replacement function exactly
\* once and replaced by its result, whatever its path is, and the rest of the
\* text is left unchanged.
C14_EveryStaticUrlReplaced ==
    static_call.called =>
        /\ static_call.calls = ExpectedCalls(static_call.parts)
        /\ static_call.out = ExpectedText(static_call.parts)

\* How many "/" a definition attribute has.
Slashes(definition) ==
    Cardinality({ i \in DOMAIN definition : definition[i] = "/" })

\* Whether the node is an xblock-include whose definition has one "/".
IsXBlockInclude(node) ==
    /\ node.tag = "xblock-include"
    /\ "definition" \in DOMAIN node.attrib
    /\ Slashes(node.attrib["definition"]) = 1

====
